---- MODULE Spec2Model ----
(***************************************************************************)
(* Model of the REST request handlers of rest/src/handlers.rs.             *)
(*                                                                         *)
(* One inbound request is followed from the moment its handler is entered  *)
(* to the moment the handler returns a reply, a rejection, or aborts.      *)
(* Every handler is an async function with a single suspension point, the  *)
(* awaited call into the node (the domain engine).  A handler action has   *)
(* therefore two steps: the entry step (parameter checks and the call) and *)
(* the resume step (the node's result arrives and is mapped).  The node is *)
(* an external collaborator: its result is any value of the operation's    *)
(* result type.  Spec follows one request at a time; SpecConcurrent has a  *)
(* second request in flight, whose handler is parked while the first runs. *)
(***************************************************************************)
EXTENDS Integers, Sequences, FiniteSets, TLC

VARIABLES
    pc,        \* "idle" | "awaiting" | "done": position of the handler
    request,   \* the inbound request being handled
    calls,     \* sequence of node operations invoked for this request
    result,    \* <<>> or <<r>>: what the awaited node call returned
    response,  \* <<>> or <<w>>: what the handler returned to warp
    parked     \* the other request's handler while it is not running

vars == <<pc, request, calls, result, response, parked>>

----------------------------------------------------------------------------
(* Bounds                                                                  *)

\* longest event list the node returns to one query
MaxEvents == 2

----------------------------------------------------------------------------
(* Option<T>: None is <<>>, Some(x) is <<x>>                               *)

None == <<>>
Some(x) == <<x>>
is_none(o) == o = <<>>
is_some(o) == o # <<>>
unwrap(o) == o[1]
Option(S) == {None} \cup {Some(x) : x \in S}

(* String::is_empty *)
is_empty(s) == s = ""

----------------------------------------------------------------------------
(* An inbound request as warp hands it to a handler: the endpoint, the     *)
(* path parameters id and sn, the authorization header, the query          *)
(* parameters and the JSON body; what an endpoint does not take is None.   *)
(* Record fields are always written in one fixed order.                    *)

Request(endpoint, id, sn, header, parameters, body) ==
    [endpoint |-> endpoint, id |-> id, sn |-> sn, header |-> header,
     parameters |-> parameters, body |-> body]

(* GetAllSubjectsQuery, GetEventsQuery, GetSignaturesQuery *)
Query(from, quantity) == [from |-> from, quantity |-> quantity]

----------------------------------------------------------------------------
(* 64-bit integers.  A u64 is four 16-bit limbs, most significant first;   *)
(* an i64 is a sign and a magnitude of four limbs.                         *)

LimbBase == 2 ^ 16

U64(a, b, c, d) == <<a, b, c, d>>
U64Zero == U64(0, 0, 0, 0)
U64One == U64(0, 0, 0, 1)
U64Two == U64(0, 0, 0, 2)
I64MaxAsU64 == U64(LimbBase \div 2 - 1, LimbBase - 1, LimbBase - 1, LimbBase - 1)
I64MaxPlusOne == U64(LimbBase \div 2, 0, 0, 0)
U64Max == U64(LimbBase - 1, LimbBase - 1, LimbBase - 1, LimbBase - 1)

I64(neg, mag) == [neg |-> neg, mag |-> mag]

RECURSIVE LimbsInc(_, _)
LimbsInc(x, i) ==
    IF i = 0 THEN x
    ELSE IF x[i] = LimbBase - 1 THEN LimbsInc([x EXCEPT ![i] = 0], i - 1)
    ELSE [x EXCEPT ![i] = x[i] + 1]

LimbsNot(x) == [i \in 1..4 |-> LimbBase - 1 - x[i]]

(* `sn as i64`: the 64 bits are kept and read as two's complement *)
u64_as_i64(sn) ==
    IF sn[1] < LimbBase \div 2
    THEN I64(FALSE, sn)
    ELSE I64(TRUE, LimbsInc(LimbsNot(sn), 4))

(* the i64 holds the same number as the u64 *)
I64EqualsU64(i, u) == i.neg = FALSE /\ i.mag = u

----------------------------------------------------------------------------
(* Results and errors of the node (core::ApiError)                         *)

Ok(v) == [ok |-> TRUE, val |-> v]
Err(e) == [ok |-> FALSE, err |-> e]
is_ok(r) == r.ok

ApiError(tag, data) == [tag |-> tag, data |-> data]
ApiInvalidParameters == ApiError("InvalidParameters", "")
ApiNotFound(reason) == ApiError("NotFound", reason)
ApiEventCreationError(source) == ApiError("EventCreationError", source)
ApiVoteNotNeeded(msg) == ApiError("VoteNotNeeded", msg)
ApiOther(name) == ApiError(name, "")

Reasons == {"no such subject", "no such request"}
Sources == {"schema", "signature"}
Messages == {"vote not needed", "already voted"}
OtherVariants == {"InternalError", "UnexpectedError"}

ApiErrors ==
    {ApiInvalidParameters}
        \cup {ApiNotFound(r) : r \in Reasons}
        \cup {ApiEventCreationError(s) : s \in Sources}
        \cup {ApiVoteNotNeeded(m) : m \in Messages}
        \cup {ApiOther(n) : n \in OtherVariants}

----------------------------------------------------------------------------
(* Wire responses: a JSON reply, a rejection carrying an error::Error, or  *)
(* an abort of the handler task (a panic: nothing is returned).            *)

Error(tag, data) == [tag |-> tag, data |-> data]
RequestError(msg) == Error("RequestError", msg)
InvalidParameters == Error("InvalidParameters", "")
NotFound == Error("NotFound", "")
NotEnoughPermissions == Error("NotEnoughPermissions", "")
ExecutionError == Error("ExecutionError", "")

json(v) == [json |-> v]
Reply(v) == [kind |-> "Reply", reply |-> json(v)]
Rejection(e) == [kind |-> "Rejection", error |-> e]
Panic == [kind |-> "Panic"]

reject_custom(e) == Rejection(e)

----------------------------------------------------------------------------
(* Response Serializer & Error Mapper                                      *)

(* variant: the EventCreationError arm is missing *)
handle_data_no_event_creation(data) ==
    IF data.ok THEN Reply(data.val)
    ELSE CASE data.err.tag = "InvalidParameters" -> reject_custom(InvalidParameters)
           [] data.err.tag = "NotFound" -> reject_custom(NotFound)
           [] data.err.tag = "VoteNotNeeded" -> reject_custom(RequestError(data.err.data))
           [] OTHER -> reject_custom(ExecutionError)

(* variant: the NotFound arm forwards its reason as a RequestError *)
handle_data_not_found_as_request(data) ==
    IF data.ok THEN Reply(data.val)
    ELSE CASE data.err.tag = "InvalidParameters" -> reject_custom(InvalidParameters)
           [] data.err.tag = "NotFound" -> reject_custom(RequestError(data.err.data))
           [] data.err.tag = "EventCreationError" -> reject_custom(NotEnoughPermissions)
           [] data.err.tag = "VoteNotNeeded" -> reject_custom(RequestError(data.err.data))
           [] OTHER -> reject_custom(ExecutionError)

handle_data(data) ==
    IF data.ok THEN Reply(data.val)
    ELSE CASE data.err.tag = "InvalidParameters" -> reject_custom(InvalidParameters)
           [] data.err.tag = "NotFound" -> reject_custom(NotFound)
           [] data.err.tag = "EventCreationError" -> reject_custom(NotEnoughPermissions)
           [] data.err.tag = "VoteNotNeeded" -> reject_custom(RequestError(data.err.data))
           [] OTHER -> reject_custom(ExecutionError)

----------------------------------------------------------------------------
(* Inputs of the handlers                                                  *)

Ids == {"", "Jsubject"}
Headers == {"key1", "key2"}
Sns == {U64Zero, U64One, I64MaxAsU64, I64MaxPlusOne, U64Max}
Windows == {I64(FALSE, U64Zero), I64(FALSE, U64Two)}

(* The text of a query field as it stands in the URL, character by         *)
(* character, and its reading as a non-negative integer.                   *)
Digits == {"0", "1", "2", "3", "4", "5", "6", "7", "8", "9"}

DigitValue(c) ==
    CASE c = "0" -> 0 [] c = "1" -> 1 [] c = "2" -> 2 [] c = "3" -> 3
      [] c = "4" -> 4 [] c = "5" -> 5 [] c = "6" -> 6 [] c = "7" -> 7
      [] c = "8" -> 8 [] c = "9" -> 9

RECURSIVE Decimal(_)
Decimal(text) ==
    IF text = <<>> THEN 0
    ELSE 10 * Decimal(SubSeq(text, 1, Len(text) - 1)) + DigitValue(text[Len(text)])

from_str(text) ==
    IF Len(text) > 0 /\ \A i \in 1..Len(text) : text[i] \in Digits
    THEN Ok(I64(FALSE, U64(0, 0, 0, Decimal(text))))
    ELSE Err("ParseIntError")

Texts == {<<"2">>, <<"-", "2">>, <<"2", "x">>}

(* an optional field: absent stays absent, present is read *)
Field(text) ==
    IF is_none(text) THEN Ok(None)
    ELSE LET number == from_str(unwrap(text)) IN
         IF is_ok(number) THEN Ok(Some(number.val)) ELSE number

(* variant: a field that does not parse is taken as absent *)
from_query_lenient(parameters) ==
    LET from == Field(parameters.from)
        quantity == Field(parameters.quantity) IN
    Ok(Query(IF is_ok(from) THEN from.val ELSE None,
             IF is_ok(quantity) THEN quantity.val ELSE None))

(* the query string read into GetAllSubjectsQuery, GetEventsQuery or       *)
(* GetSignaturesQuery before the handler is entered                        *)
from_query(parameters) ==
    LET from == Field(parameters.from)
        quantity == Field(parameters.quantity) IN
    IF is_ok(from) /\ is_ok(quantity)
    THEN Ok(Query(from.val, quantity.val))
    ELSE Err("InvalidQuery")

Payload(variant, content) == [variant |-> variant, content |-> content]
Payloads == {Payload("Json", "{}"), Payload("JsonPatch", "[]")}

(* SubjectData as far as the handlers read it *)
Subjects ==
    [subject_id : {"Jsubject"}, governance_id : [digest : {"", "Jgovernance"}]]

PostSubjectBodys ==
    [governance_id : {"Jgovernance"}, schema_id : {"schema"},
     namespace : {"namespace1", "namespace2"}, payload : Payloads]
PostGovernanceBodys == [payload : Payloads]
PostEventBodys == [payload : Payloads]
PutVoteBodys == {"Accept", "Reject"}

EventRequestTypes ==
    {[variant |-> "State", subject_id |-> "Jsubject", payload |-> p] : p \in Payloads}
Timestamps == {1671547013}
SignatureBodys == {"SEsignature", "not-a-signature"}
PostEventRequestBodys ==
    [request : EventRequestTypes, timestamp : Option(Timestamps),
     signature : Option(SignatureBodys)]

(* body.payload.into() and body.request.into(): the wire value becomes the *)
(* node's value of the same variant                                        *)
into(x) == [core |-> x]

(* body.try_into(): TryFrom<PostEventRequestBody> for the external request *)
try_into(value) ==
    IF is_none(value.signature) \/ is_none(value.timestamp)
       \/ unwrap(value.signature) = "not-a-signature"
    THEN Err("conversion")
    ELSE Ok([request |-> into(value.request),
             timestamp |-> unwrap(value.timestamp),
             signature |-> into(unwrap(value.signature))])

(* Acceptance of a vote *)
Acceptance(vote) == [Acceptance |-> vote]

----------------------------------------------------------------------------
(* Values the node returns                                                 *)

Event(sn, req) ==
    [event_content |-> [sn |-> sn, event_request |-> [request |-> req]]]
Events == {Event(sn, req) : sn \in {U64Zero, U64One}, req \in EventRequestTypes}

SeqsUpTo(S, n) == UNION {[1..k -> S] : k \in 0..n}
EventLists == SeqsUpTo(Events, MaxEvents)

(* Vec::pop: the last element, if any *)
pop(v) == IF Len(v) = 0 THEN None ELSE Some(v[Len(v)])

Operations ==
    {"get_subject", "get_all_subjects", "create_subject", "create_request",
     "external_request", "get_pending_requests", "get_single_request",
     "approval_request", "get_all_governances", "create_governance",
     "get_event_of_subject", "simulate_event", "get_signatures"}

OkValues(op) ==
    CASE op = "get_subject" -> Subjects
      [] op = "simulate_event" -> Subjects
      [] op = "get_event_of_subject" -> EventLists
      [] OTHER -> {<<op, "value1">>, <<op, "value2">>}

NodeResults(op) == {Ok(v) : v \in OkValues(op)} \cup {Err(e) : e \in ApiErrors}

Call(op, args) == [op |-> op, args |-> args]

----------------------------------------------------------------------------
(* Steps of a handler                                                      *)

(* the handler returns without having called the node *)
Return(req, w) ==
    /\ pc # "awaiting"
    /\ pc' = "done"
    /\ request' = req
    /\ calls' = <<>>
    /\ result' = None
    /\ response' = Some(w)
    /\ UNCHANGED parked

(* variant: a call equal to one already in flight is not issued again *)
Await_coalesced(req, call) ==
    /\ pc # "awaiting"
    /\ pc' = "awaiting"
    /\ request' = req
    /\ calls' = IF parked.pc = "awaiting" /\ parked.calls = <<call>>
                THEN <<>>
                ELSE <<call>>
    /\ result' = None
    /\ response' = None
    /\ UNCHANGED parked

(* the handler calls the node and is suspended at the .await *)
Await(req, call) ==
    /\ pc # "awaiting"
    /\ pc' = "awaiting"
    /\ request' = req
    /\ calls' = <<call>>
    /\ result' = None
    /\ response' = None
    /\ UNCHANGED parked

(* variant: the handler goes back and issues its call again on return *)
Resume_again(r, w) ==
    /\ pc' = "done"
    /\ calls' = calls \o calls
    /\ result' = Some(r)
    /\ response' = Some(w)
    /\ UNCHANGED <<request, parked>>

(* the awaited call returned r and the handler finishes with w *)
Resume(r, w) ==
    /\ pc' = "done"
    /\ result' = Some(r)
    /\ response' = Some(w)
    /\ UNCHANGED <<request, calls, parked>>

Awaiting(endpoint) == pc = "awaiting" /\ request.endpoint = endpoint

(* variant: the wrong Error variant is used for the empty identifier *)
QueryParameterError_invalid == reject_custom(InvalidParameters)

QueryParameterError == reject_custom(RequestError("Error in query parameter"))

(* the rejection of a query string that cannot be read *)
InvalidQuery == reject_custom(RequestError("Invalid query string"))

(* the locals of one handler invocation *)
Handler(p, req, cs, r, w) ==
    [pc |-> p, request |-> req, calls |-> cs, result |-> r, response |-> w]

NoRequest == Request("none", None, None, None, None, None)

Init ==
    /\ pc = "idle"
    /\ request = NoRequest
    /\ calls = <<>>
    /\ result = None
    /\ response = None
    /\ parked = Handler("idle", NoRequest, <<>>, None, None)

----------------------------------------------------------------------------
(* Subjects                                                                *)

(* variant: the handler looks at the token before it calls the node *)
get_subject_handler_keyed ==
    \/ \E id \in Ids, header \in Headers :
         LET req == Request("get_subject", id, None, header, None, None) IN
         IF is_empty(id) \/ header # "key1"
         THEN Return(req, QueryParameterError)
         ELSE Await(req, Call("get_subject", <<id>>))
    \/ /\ Awaiting("get_subject")
       /\ \E r \in NodeResults("get_subject") : Resume(r, handle_data(r))

get_subject_handler ==
    \/ \E id \in Ids, header \in Headers :
         LET req == Request("get_subject", id, None, header, None, None) IN
         IF is_empty(id)
         THEN Return(req, QueryParameterError)
         ELSE Await(req, Call("get_subject", <<id>>))
    \/ /\ Awaiting("get_subject")
       /\ \E r \in NodeResults("get_subject") : Resume(r, handle_data(r))

(* variant: the namespace is chosen by the caller's token *)
get_all_subjects_handler_per_caller ==
    \/ \E header \in Headers, from \in Option(Texts), quantity \in Option(Texts) :
         LET req == Request("get_all_subjects", None, None, header, Query(from, quantity), None)
             query == from_query(req.parameters)
             namespace == IF header = "key1" THEN "namespace1" ELSE "namespace2" IN
         IF ~is_ok(query)
         THEN Return(req, InvalidQuery)
         ELSE LET parameters == query.val IN
              Await(req, Call("get_all_subjects",
                              <<namespace, parameters.from, parameters.quantity>>))
    \/ /\ Awaiting("get_all_subjects")
       /\ \E r \in NodeResults("get_all_subjects") : Resume(r, handle_data(r))

get_all_subjects_handler ==
    \/ \E header \in Headers, from \in Option(Texts), quantity \in Option(Texts) :
         LET req == Request("get_all_subjects", None, None, header, Query(from, quantity), None)
             query == from_query(req.parameters) IN
         IF ~is_ok(query)
         THEN Return(req, InvalidQuery)
         ELSE LET parameters == query.val IN
              Await(req, Call("get_all_subjects",
                              <<"namespace1", parameters.from, parameters.quantity>>))
    \/ /\ Awaiting("get_all_subjects")
       /\ \E r \in NodeResults("get_all_subjects") : Resume(r, handle_data(r))

(* variant: governance id and schema id are passed in each other's place *)
post_subject_handler_transposed ==
    \/ \E header \in Headers, body \in PostSubjectBodys :
         LET req == Request("post_subject", None, None, header, None, body)
             payload == into(body.payload) IN
         Await(req, Call("create_subject",
                         <<body.schema_id, body.governance_id, body.namespace, payload>>))
    \/ /\ Awaiting("post_subject")
       /\ \E r \in NodeResults("create_subject") : Resume(r, handle_data(r))

post_subject_handler ==
    \/ \E header \in Headers, body \in PostSubjectBodys :
         LET req == Request("post_subject", None, None, header, None, body)
             payload == into(body.payload) IN
         Await(req, Call("create_subject",
                         <<body.governance_id, body.schema_id, body.namespace, payload>>))
    \/ /\ Awaiting("post_subject")
       /\ \E r \in NodeResults("create_subject") : Resume(r, handle_data(r))

----------------------------------------------------------------------------
(* Requests and approvals                                                  *)

(* variant: the first test joins the two absences with "or" *)
post_event_request_handler_or ==
    \/ \E header \in Headers, body \in PostEventRequestBodys :
         LET req == Request("post_event_request", None, None, header, None, body) IN
         IF is_none(body.signature) \/ is_none(body.timestamp)
         THEN Await(req, Call("create_request", <<into(body.request)>>))
         ELSE IF is_some(body.signature) /\ is_some(body.timestamp)
         THEN IF is_ok(try_into(body))
              THEN Await(req, Call("external_request", <<try_into(body).val>>))
              ELSE Return(req, handle_data(Err(ApiInvalidParameters)))
         ELSE Return(req, handle_data(Err(ApiInvalidParameters)))
    \/ /\ Awaiting("post_event_request")
       /\ \E r \in NodeResults(calls[1].op) : Resume(r, handle_data(r))

(* variant: the two presence tests are exchanged *)
post_event_request_handler_swapped ==
    \/ \E header \in Headers, body \in PostEventRequestBodys :
         LET req == Request("post_event_request", None, None, header, None, body) IN
         IF is_some(body.signature) /\ is_some(body.timestamp)
         THEN Await(req, Call("create_request", <<into(body.request)>>))
         ELSE IF is_none(body.signature) /\ is_none(body.timestamp)
         THEN IF is_ok(try_into(body))
              THEN Await(req, Call("external_request", <<try_into(body).val>>))
              ELSE Return(req, handle_data(Err(ApiInvalidParameters)))
         ELSE Return(req, handle_data(Err(ApiInvalidParameters)))
    \/ /\ Awaiting("post_event_request")
       /\ \E r \in NodeResults(calls[1].op) : Resume(r, handle_data(r))

post_event_request_handler ==
    \/ \E header \in Headers, body \in PostEventRequestBodys :
         LET req == Request("post_event_request", None, None, header, None, body) IN
         IF is_none(body.signature) /\ is_none(body.timestamp)
         THEN Await(req, Call("create_request", <<into(body.request)>>))
         ELSE IF is_some(body.signature) /\ is_some(body.timestamp)
         THEN IF is_ok(try_into(body))
              THEN Await(req, Call("external_request", <<try_into(body).val>>))
              ELSE Return(req, handle_data(Err(ApiInvalidParameters)))
         ELSE Return(req, handle_data(Err(ApiInvalidParameters)))
    \/ /\ Awaiting("post_event_request")
       /\ \E r \in NodeResults(calls[1].op) : Resume(r, handle_data(r))

get_pending_requests_handler ==
    \/ \E header \in Headers :
         LET req == Request("get_pending_requests", None, None, header, None, None) IN
         Await(req, Call("get_pending_requests", <<>>))
    \/ /\ Awaiting("get_pending_requests")
       /\ \E r \in NodeResults("get_pending_requests") : Resume(r, handle_data(r))

get_single_request_handler ==
    \/ \E id \in Ids, header \in Headers :
         LET req == Request("get_single_request", id, None, header, None, None) IN
         Await(req, Call("get_single_request", <<id>>))
    \/ /\ Awaiting("get_single_request")
       /\ \E r \in NodeResults("get_single_request") : Resume(r, handle_data(r))

(* variant: the two arms of the vote match are exchanged *)
put_approval_handler_exchanged ==
    \/ \E request_id \in Ids, header \in Headers, body \in PutVoteBodys :
         LET req == Request("put_approval", request_id, None, header, None, body)
             acceptance == CASE body = "Accept" -> Acceptance("Reject")
                             [] body = "Reject" -> Acceptance("Accept") IN
         Await(req, Call("approval_request", <<request_id, acceptance>>))
    \/ /\ Awaiting("put_approval")
       /\ \E r \in NodeResults("approval_request") : Resume(r, handle_data(r))

put_approval_handler ==
    \/ \E request_id \in Ids, header \in Headers, body \in PutVoteBodys :
         LET req == Request("put_approval", request_id, None, header, None, body)
             acceptance == CASE body = "Accept" -> Acceptance("Accept")
                             [] body = "Reject" -> Acceptance("Reject") IN
         Await(req, Call("approval_request", <<request_id, acceptance>>))
    \/ /\ Awaiting("put_approval")
       /\ \E r \in NodeResults("approval_request") : Resume(r, handle_data(r))

----------------------------------------------------------------------------
(* Governances                                                             *)

(* variant: the fetched subject is returned whatever its governance_id *)
get_governance_handler_unnarrowed ==
    \/ \E id \in Ids, header \in Headers :
         LET req == Request("get_governance", id, None, header, None, None) IN
         IF is_empty(id)
         THEN Return(req, QueryParameterError)
         ELSE Await(req, Call("get_subject", <<id>>))
    \/ /\ Awaiting("get_governance")
       /\ \E r \in NodeResults("get_subject") : Resume(r, handle_data(r))

get_governance_handler ==
    \/ \E id \in Ids, header \in Headers :
         LET req == Request("get_governance", id, None, header, None, None) IN
         IF is_empty(id)
         THEN Return(req, QueryParameterError)
         ELSE Await(req, Call("get_subject", <<id>>))
    \/ /\ Awaiting("get_governance")
       /\ \E r \in NodeResults("get_subject") :
            LET narrowed ==
                  IF is_ok(r) /\ ~is_empty(r.val.governance_id.digest)
                  THEN Err(ApiNotFound("This ID does not belong to a governance"))
                  ELSE r IN
            Resume(r, handle_data(narrowed))

get_all_governances_handler ==
    \/ \E header \in Headers :
         LET req == Request("get_all_governances", None, None, header, None, None) IN
         Await(req, Call("get_all_governances", <<>>))
    \/ /\ Awaiting("get_all_governances")
       /\ \E r \in NodeResults("get_all_governances") : Resume(r, handle_data(r))

post_governance_handler ==
    \/ \E header \in Headers, body \in PostGovernanceBodys :
         LET req == Request("post_governance", None, None, header, None, body)
             payload == into(body.payload) IN
         Await(req, Call("create_governance", <<payload>>))
    \/ /\ Awaiting("post_governance")
       /\ \E r \in NodeResults("create_governance") : Resume(r, handle_data(r))

----------------------------------------------------------------------------
(* Events and signatures                                                   *)

get_events_of_subject_handler ==
    \/ \E id \in Ids, header \in Headers,
          from \in Option(Texts), quantity \in Option(Texts) :
         LET req == Request("get_events_of_subject", id, None, header, Query(from, quantity), None)
             query == from_query(req.parameters) IN
         IF ~is_ok(query)
         THEN Return(req, InvalidQuery)
         ELSE IF is_empty(id)
         THEN Return(req, QueryParameterError)
         ELSE LET parameters == query.val IN
              Await(req, Call("get_event_of_subject",
                              <<id, parameters.from, parameters.quantity>>))
    \/ /\ Awaiting("get_events_of_subject")
       /\ \E r \in NodeResults("get_event_of_subject") : Resume(r, handle_data(r))

post_event_simulated_handler ==
    \/ \E id \in Ids, header \in Headers, body \in PostEventBodys :
         LET req == Request("post_event_simulated", id, None, header, None, body)
             payload == into(body.payload) IN
         IF is_empty(id)
         THEN Return(req, QueryParameterError)
         ELSE Await(req, Call("simulate_event", <<id, payload>>))
    \/ /\ Awaiting("post_event_simulated")
       /\ \E r \in NodeResults("simulate_event") : Resume(r, handle_data(r))

(* variant: the first element of the list is returned, not the last *)
get_event_handler_first ==
    \/ \E id \in Ids, sn \in Sns, header \in Headers :
         LET req == Request("get_event", id, sn, header, None, None) IN
         IF is_empty(id)
         THEN Return(req, QueryParameterError)
         ELSE Await(req, Call("get_event_of_subject",
                              <<id, Some(u64_as_i64(sn)), Some(1)>>))
    \/ /\ Awaiting("get_event")
       /\ \E r \in NodeResults("get_event_of_subject") :
            IF is_ok(r)
            THEN IF is_none(pop(r.val))
                 THEN Resume(r, reject_custom(NotFound))
                 ELSE Resume(r, handle_data(Ok(Head(r.val))))
            ELSE Resume(r, handle_data(r))

get_event_handler ==
    \/ \E id \in Ids, sn \in Sns, header \in Headers :
         LET req == Request("get_event", id, sn, header, None, None) IN
         IF is_empty(id)
         THEN Return(req, QueryParameterError)
         ELSE Await(req, Call("get_event_of_subject",
                              <<id, Some(u64_as_i64(sn)), Some(1)>>))
    \/ /\ Awaiting("get_event")
       /\ \E r \in NodeResults("get_event_of_subject") :
            IF is_ok(r)
            THEN IF is_none(pop(r.val))
                 THEN Resume(r, reject_custom(NotFound))
                 ELSE Resume(r, handle_data(Ok(unwrap(pop(r.val)))))
            ELSE Resume(r, handle_data(r))

(* variant: an absent from is replaced by the first index *)
get_signatures_handler_defaulted ==
    \/ \E id \in Ids, sn \in Sns, header \in Headers,
          from \in Option(Texts), quantity \in Option(Texts) :
         LET req == Request("get_signatures", id, sn, header, Query(from, quantity), None)
             query == from_query(req.parameters) IN
         IF ~is_ok(query)
         THEN Return(req, InvalidQuery)
         ELSE IF is_empty(id)
         THEN Return(req, QueryParameterError)
         ELSE LET parameters == query.val
                  first == IF is_none(parameters.from)
                           THEN Some(I64(FALSE, U64Zero))
                           ELSE parameters.from IN
              Await(req, Call("get_signatures",
                              <<id, sn, first, parameters.quantity>>))
    \/ /\ Awaiting("get_signatures")
       /\ \E r \in NodeResults("get_signatures") : Resume(r, handle_data(r))

get_signatures_handler ==
    \/ \E id \in Ids, sn \in Sns, header \in Headers,
          from \in Option(Texts), quantity \in Option(Texts) :
         LET req == Request("get_signatures", id, sn, header, Query(from, quantity), None)
             query == from_query(req.parameters) IN
         IF ~is_ok(query)
         THEN Return(req, InvalidQuery)
         ELSE IF is_empty(id)
         THEN Return(req, QueryParameterError)
         ELSE LET parameters == query.val IN
              Await(req, Call("get_signatures",
                              <<id, sn, parameters.from, parameters.quantity>>))
    \/ /\ Awaiting("get_signatures")
       /\ \E r \in NodeResults("get_signatures") : Resume(r, handle_data(r))

get_event_properties_handler ==
    \/ \E id \in Ids, sn \in Sns, header \in Headers :
         LET req == Request("get_event_properties", id, sn, header, None, None) IN
         IF is_empty(id)
         THEN Return(req, QueryParameterError)
         ELSE Await(req, Call("get_event_of_subject",
                              <<id, Some(u64_as_i64(sn)), Some(1)>>))
    \/ /\ Awaiting("get_event_properties")
       /\ \E r \in NodeResults("get_event_of_subject") :
            IF is_ok(r)
            THEN IF is_none(pop(r.val))
                 THEN Resume(r, Panic)
                 ELSE LET event == unwrap(pop(r.val))
                          properties == event.event_content.event_request.request IN
                      Resume(r, Reply(properties))
            ELSE Resume(r, reject_custom(ExecutionError))

----------------------------------------------------------------------------

Next ==
    \/ get_subject_handler
    \/ get_all_subjects_handler
    \/ post_subject_handler
    \/ post_event_request_handler
    \/ get_pending_requests_handler
    \/ get_single_request_handler
    \/ put_approval_handler
    \/ get_governance_handler
    \/ get_all_governances_handler
    \/ post_governance_handler
    \/ get_events_of_subject_handler
    \/ post_event_simulated_handler
    \/ get_event_handler
    \/ get_signatures_handler
    \/ get_event_properties_handler

Spec == Init /\ [][Next]_vars

----------------------------------------------------------------------------
(* Two requests handled concurrently.  warp runs every request in a task   *)
(* of its own; between two steps of one handler the runtime may run the    *)
(* other one.  The running handler owns pc, request, calls, result and     *)
(* response; the other handler's locals are parked.                        *)

Running == Handler(pc, request, calls, result, response)

Switch ==
    /\ parked' = Running
    /\ pc' = parked.pc
    /\ request' = parked.request
    /\ calls' = parked.calls
    /\ result' = parked.result
    /\ response' = parked.response

QueryEndpoints == {"get_all_subjects", "get_events_of_subject", "get_signatures"}
SnEndpoints == {"get_event", "get_signatures", "get_event_properties"}
PayloadEndpoints == {"post_subject", "post_governance", "post_event_simulated"}

ScopeErrors == {ApiVoteNotNeeded("already voted")}

ScopeValues(op) ==
    CASE op = "get_event_of_subject"
           -> {v \in OkValues(op) :
                 \A i \in 1..Len(v) : /\ i = 1
                                       /\ v[i].event_content.sn = U64Zero
                                       /\ v[i].event_content.event_request.request.payload.variant = "Json"}
      [] op \in {"get_subject", "simulate_event"}
           -> {v \in OkValues(op) : v.governance_id.digest = ""}
      [] OTHER -> {<<op, "value1">>}

(* the requests and node results the concurrent specification draws from *)
InScope ==
    /\ request.endpoint \in SnEndpoints => request.sn = I64MaxPlusOne
    /\ request.endpoint \in QueryEndpoints
         => request.parameters \in {Query(None, Some(<<"2">>)),
                                    Query(Some(<<"2", "x">>), None)}
    /\ request.endpoint = "put_approval" => request.body = "Accept"
    /\ request.endpoint \in PayloadEndpoints => request.body.payload.variant = "Json"
    /\ request.endpoint = "post_subject" => request.body.namespace = "namespace1"
    /\ request.endpoint = "post_event_request"
         => /\ request.body.request.payload.variant = "Json"
            /\ request.body.signature # Some("not-a-signature")
    /\ is_some(result)
         => IF is_ok(unwrap(result))
            THEN unwrap(result).val \in ScopeValues(calls[1].op)
            ELSE unwrap(result).err \in ScopeErrors

HandlerStep == Next /\ InScope'

NextConcurrent ==
    \/ HandlerStep
    \/ Switch

SpecConcurrent == Init /\ [][NextConcurrent]_vars

----------------------------------------------------------------------------
(* Properties                                                              *)

Done == pc = "done"
Responded(w) == response = Some(w)
IsRejection(tag) ==
    /\ is_some(response)
    /\ unwrap(response).kind = "Rejection"
    /\ unwrap(response).error.tag = tag
NoDomainCall == calls = <<>>
Called(op) == \E i \in 1..Len(calls) : calls[i].op = op

IdEndpoints ==
    {"get_subject", "get_single_request", "put_approval", "get_governance",
     "get_events_of_subject", "post_event_simulated", "get_event",
     "get_signatures", "get_event_properties"}

EmptyIdRequest == request.endpoint \in IdEndpoints /\ is_empty(request.id)

\* C1: on every identifier-bearing endpoint a request whose path identifier
\* is the empty string ends with the RequestError rejection and no node
\* operation is invoked for it.
C1_EmptyIdIsRequestError ==
    EmptyIdRequest => NoDomainCall /\ (Done => IsRejection("RequestError"))

IsEventRequest == request.endpoint = "post_event_request"
SignaturePresent == is_some(request.body.signature)
TimestampPresent == is_some(request.body.timestamp)

\* C2: an event-request submission with exactly one of signature and
\* timestamp present ends with the InvalidParameters rejection, and neither
\* create_request nor external_request is invoked.
C2_PartialOriginInvalid ==
    (IsEventRequest /\ (SignaturePresent # TimestampPresent))
        => /\ Done
           /\ Responded(Rejection(InvalidParameters))
           /\ ~Called("create_request")
           /\ ~Called("external_request")

C2_Witness ==
    /\ IsEventRequest /\ Done
    /\ SignaturePresent /\ ~TimestampPresent
    /\ IsRejection("InvalidParameters")

\* C3: with both signature and timestamp present, a successful conversion
\* leads to exactly one external_request call carrying the converted request
\* and no create_request call; a failed conversion ends with InvalidParameters
\* and no node call at all.
C3_ExternalOrigin ==
    (IsEventRequest /\ SignaturePresent /\ TimestampPresent)
        => IF is_ok(try_into(request.body))
           THEN calls = <<Call("external_request", <<try_into(request.body).val>>)>>
           ELSE /\ Done
                /\ NoDomainCall
                /\ Responded(Rejection(InvalidParameters))

C3_Witness ==
    /\ IsEventRequest /\ Done
    /\ SignaturePresent /\ TimestampPresent
    /\ is_ok(try_into(request.body))
    /\ Called("external_request")

C3_WitnessInconvertible ==
    /\ IsEventRequest /\ Done
    /\ SignaturePresent /\ TimestampPresent
    /\ ~is_ok(try_into(request.body))

\* C4: with neither signature nor timestamp present, the bare request goes to
\* create_request exactly once, external_request is never invoked, and the
\* response is handle_data of what that call returned.
C4_LocalOrigin ==
    (IsEventRequest /\ ~SignaturePresent /\ ~TimestampPresent)
        => /\ calls = <<Call("create_request", <<into(request.body.request)>>)>>
           /\ Done => /\ is_some(result)
                      /\ Responded(handle_data(unwrap(result)))

C4_Witness ==
    /\ IsEventRequest /\ Done
    /\ ~SignaturePresent /\ ~TimestampPresent
    /\ Called("create_request")
    /\ is_some(result) /\ is_ok(unwrap(result))

IsGovernanceSubject(r) == is_ok(r) /\ is_empty(r.val.governance_id.digest)
IsOtherSubject(r) == is_ok(r) /\ ~is_empty(r.val.governance_id.digest)

\* C5: a governance read replies with the fetched subject exactly when the
\* subject read returned Ok with an empty governance_id; a subject with a
\* non-empty governance_id is rejected as NotFound although the plain subject
\* read replies with it; an error of the subject read goes through
\* handle_data unchanged.
C5_GovernanceNarrowing ==
    /\ (request.endpoint = "get_governance" /\ Done /\ is_some(result))
         => LET r == unwrap(result)
                w == unwrap(response) IN
            /\ (w.kind = "Reply") <=> IsGovernanceSubject(r)
            /\ IsGovernanceSubject(r) => w = Reply(r.val)
            /\ IsOtherSubject(r) => w = Rejection(NotFound)
            /\ ~is_ok(r) => w = handle_data(r)
    /\ (request.endpoint = "get_subject" /\ Done /\ is_some(result))
         => LET r == unwrap(result) IN
            is_ok(r) => Responded(Reply(r.val))

C5_Witness ==
    /\ request.endpoint = "get_governance" /\ Done
    /\ is_some(result) /\ IsOtherSubject(unwrap(result))
    /\ IsRejection("NotFound")

NodeReturned == Done /\ is_some(result)
NodeReturnedOk == NodeReturned /\ is_ok(unwrap(result))
NodeReturnedErr == NodeReturned /\ ~is_ok(unwrap(result))

NarrowingQuery(id, sn) ==
    /\ Len(calls) = 1
    /\ calls[1].op = "get_event_of_subject"
    /\ calls[1].args[1] = id
    /\ is_some(calls[1].args[2])
    /\ I64EqualsU64(unwrap(calls[1].args[2]), sn)
    /\ calls[1].args[3] = Some(1)

\* C6: for a non-empty id and a serial number sn, get_event queries the
\* node's event list with from = sn and quantity = 1, replies with the sole
\* element of a non-empty list and rejects with NotFound on an empty list.
C6_GetEventNarrowing ==
    (request.endpoint = "get_event" /\ ~is_empty(request.id))
        => /\ NarrowingQuery(request.id, request.sn)
           /\ NodeReturnedOk =>
                LET list == unwrap(result).val IN
                /\ Len(list) = 0 => Responded(Rejection(NotFound))
                /\ Len(list) = 1 => Responded(Reply(list[1]))

\* C7: when the event list query of get_event_properties returns Ok with an
\* empty list the endpoint rejects with NotFound; with a non-empty list it
\* replies with the decoded request of the sole element.
C7_PropertiesNarrowing ==
    (request.endpoint = "get_event_properties" /\ NodeReturnedOk)
        => LET list == unwrap(result).val IN
           /\ Len(list) = 0 => Responded(Rejection(NotFound))
           /\ Len(list) = 1 =>
                Responded(Reply(list[1].event_content.event_request.request))

(* handlers whose resume step hands the node's result straight to handle_data *)
MapperEndpoints ==
    {"get_subject", "get_all_subjects", "post_subject", "post_event_request",
     "get_pending_requests", "get_single_request", "put_approval",
     "get_all_governances", "post_governance", "get_events_of_subject",
     "post_event_simulated", "get_signatures"}

ThreeArmCategory(e) ==
    CASE e.tag = "InvalidParameters" -> InvalidParameters
      [] e.tag = "NotFound" -> NotFound
      [] e.tag = "EventCreationError" -> NotEnoughPermissions
      [] OTHER -> ExecutionError

FourArmCategory(e) ==
    CASE e.tag = "InvalidParameters" -> InvalidParameters
      [] e.tag = "NotFound" -> NotFound
      [] e.tag = "EventCreationError" -> NotEnoughPermissions
      [] e.tag = "VoteNotNeeded" -> RequestError(e.data)
      [] OTHER -> ExecutionError

C9_UniformErrors ==
    NodeReturnedErr => Responded(handle_data(unwrap(result)))

Unreadable(text) == is_some(text) /\ ~is_ok(from_str(unwrap(text)))

UnreadableQuery ==
    /\ request.endpoint \in QueryEndpoints
    /\ Unreadable(request.parameters.from) \/ Unreadable(request.parameters.quantity)

(* what the gateway itself is to reject: an empty path identifier, a query *)
(* field that is no number, an ambiguous origin, an origin that cannot be  *)
(* converted                                                               *)
GatewayRejects ==
    \/ EmptyIdRequest
    \/ UnreadableQuery
    \/ /\ IsEventRequest
       /\ \/ SignaturePresent # TimestampPresent
          \/ SignaturePresent /\ TimestampPresent /\ ~is_ok(try_into(request.body))

\* C11: a request makes exactly one node call when it passes the gateway's
\* validation and none when the gateway rejects it (empty identifier,
\* ambiguous or inconvertible origin); no request ever has more than one
\* call, also after the call returned an error.
C11_OneCallPerRequest ==
    pc # "idle"
        => /\ Len(calls) <= 1
           /\ GatewayRejects => Len(calls) = 0
           /\ ~GatewayRejects => Len(calls) = 1
           /\ NodeReturnedErr => Len(calls) = 1

\* C12: every finished request has exactly one caller-visible outcome, a
\* reply or a rejection of the taxonomy; no handler ends without one.
C12_AlwaysResponds ==
    Done => /\ is_some(response)
            /\ unwrap(response).kind \in {"Reply", "Rejection"}

NarrowingEndpoints == {"get_event", "get_event_properties"}

\* C13: the from value get_event and get_event_properties pass to the node's
\* event list query is numerically equal to the requested sn, for every sn
\* of the unsigned 64-bit range.
C13_SnNotCoerced ==
    (request.endpoint \in NarrowingEndpoints /\ ~NoDomainCall)
        => /\ is_some(calls[1].args[2])
           /\ I64EqualsU64(unwrap(calls[1].args[2]), request.sn)

RequestIdEndpoints == {"get_single_request", "put_approval"}
SubjectIdEndpoints == IdEndpoints \ RequestIdEndpoints

IsVote == request.endpoint = "put_approval"

\* C15: a vote on a request id for which approval_request reports NotFound
\* ends with the NotFound rejection, none of the other categories; the vote
\* passed to the node is the vote of the body and the request id is passed
\* unchanged.
C15_VoteOnMissingRequest ==
    IsVote
        => /\ calls = <<Call("approval_request",
                             <<request.id, [Acceptance |-> request.body]>>)>>
           /\ (NodeReturnedErr /\ unwrap(result).err.tag = "NotFound")
                => Responded(Rejection(NotFound))

C15_Witness ==
    /\ IsVote /\ NodeReturnedErr
    /\ request.body = "Reject"
    /\ unwrap(result).err.tag = "NotFound"
    /\ IsRejection("NotFound")

----------------------------------------------------------------------------
(* Two requests at once *)

BothReceived == pc # "idle" /\ parked.pc # "idle"

SameEndpoint == request.endpoint = parked.request.endpoint

C16_SameOutcome ==
    (BothReceived /\ SameEndpoint /\ request = parked.request)
        => /\ calls = parked.calls
           /\ result = parked.result
                => /\ pc = parked.pc
                   /\ response = parked.response

C16_NoInterference ==
    [][\/ parked' = parked
       \/ parked' = Running /\ Running' = parked]_vars

\* C16: requests are handled independently.  With two requests in flight
\* and their steps interleaved in any order, a step of one handler leaves
\* the other handler's request, call, result and response as they were, and
\* two handlers given the same request issue the same domain call and, once
\* given the same domain result, produce the same response: nothing a
\* handler does depends on what the other one did before or in between.
C16_Independent == []C16_SameOutcome /\ C16_NoInterference

C16_Witness ==
    /\ pc = "done" /\ is_some(result)
    /\ parked.pc = "awaiting"
    /\ SameEndpoint /\ request = parked.request
    /\ calls = parked.calls

----------------------------------------------------------------------------
(* The stages of one request *)

C17_Stages ==
    /\ Len(calls) <= 1
    /\ pc = "awaiting" => Len(calls) = 1 /\ is_none(result)
    /\ is_some(result) => Len(calls) = 1 /\ Done
    /\ is_some(response) <=> Done

C17_Step ==
    /\ pc = "awaiting"
         => /\ pc' = "done"
            /\ request' = request
            /\ calls' = calls
            /\ is_some(result') /\ is_some(response')
    /\ pc # "awaiting"
         => /\ request'.endpoint # "none"
            /\ is_none(result')
            /\ \/ pc' = "done" /\ calls' = <<>>
               \/ pc' = "awaiting" /\ Len(calls') = 1

\* C17: the pipeline of a request is linear.  A request is first validated
\* and its origin decided, which ends either in a rejection with no domain
\* call or in exactly one domain call; while that call is awaited the
\* request and the chosen call do not change any more, and the only step
\* left is the mapping of the call's result to the response; a request
\* that has its response has made at most that one call.
C17_LinearPipeline == []C17_Stages /\ [][C17_Step]_vars

C17_Witness ==
    /\ IsEventRequest /\ Done
    /\ Len(calls) = 1 /\ calls[1].op = "external_request"
    /\ NodeReturnedOk

----------------------------------------------------------------------------
(* The token *)

DifferOnlyInToken ==
    /\ BothReceived /\ SameEndpoint
    /\ request.header # parked.request.header
    /\ [request EXCEPT !.header = parked.request.header] = parked.request

\* C18: the token is opaque.  Two requests to the same endpoint that differ
\* in nothing but the token are either both rejected before any domain
\* call or lead to the same domain call (the same operation with the same
\* arguments), and once they have been given the same domain result they
\* have the same response.
C18_TokenOpaque ==
    DifferOnlyInToken
        => /\ calls = parked.calls
           /\ result = parked.result
                => /\ pc = parked.pc
                   /\ response = parked.response

C18_Witness ==
    /\ DifferOnlyInToken
    /\ request.endpoint = "post_event_request"
    /\ NodeReturnedErr
    /\ result = parked.result

----------------------------------------------------------------------------
(* The pagination window *)

Forwarded(text) ==
    IF is_none(text) THEN None ELSE Some(from_str(unwrap(text)).val)

WindowOf(call) ==
    LET n == Len(call.args) IN Query(call.args[n - 1], call.args[n])

ListOperation ==
    CASE request.endpoint = "get_all_subjects" -> "get_all_subjects"
      [] request.endpoint = "get_events_of_subject" -> "get_event_of_subject"
      [] request.endpoint = "get_signatures" -> "get_signatures"

\* C20: the three paginated list endpoints hand the pagination window to
\* the domain call as it came: whenever such a request has made its call,
\* the call is the endpoint's list operation and its from and quantity are
\* the numbers the request gave, an absent field being passed as absent.
C20_WindowForwarded ==
    (request.endpoint \in QueryEndpoints /\ ~NoDomainCall)
        => /\ calls[1].op = ListOperation
           /\ WindowOf(calls[1]) = Query(Forwarded(request.parameters.from),
                                         Forwarded(request.parameters.quantity))

C20_Witness ==
    /\ request.endpoint = "get_signatures" /\ Done
    /\ request.parameters = Query(None, Some(<<"2">>))
    /\ Len(calls) = 1
    /\ WindowOf(calls[1]) = Query(None, Some(I64(FALSE, U64Two)))

----------------------------------------------------------------------------
(* The dispatch table *)

Designated(endpoint) ==
    CASE endpoint = "get_subject" -> {"get_subject"}
      [] endpoint = "get_all_subjects" -> {"get_all_subjects"}
      [] endpoint = "post_subject" -> {"create_subject"}
      [] endpoint = "post_event_request" -> {"create_request", "external_request"}
      [] endpoint = "get_pending_requests" -> {"get_pending_requests"}
      [] endpoint = "get_single_request" -> {"get_single_request"}
      [] endpoint = "put_approval" -> {"approval_request"}
      [] endpoint = "get_governance" -> {"get_subject"}
      [] endpoint = "get_all_governances" -> {"get_all_governances"}
      [] endpoint = "post_governance" -> {"create_governance"}
      [] endpoint = "get_events_of_subject" -> {"get_event_of_subject"}
      [] endpoint = "post_event_simulated" -> {"simulate_event"}
      [] endpoint = "get_event" -> {"get_event_of_subject"}
      [] endpoint = "get_signatures" -> {"get_signatures"}
      [] endpoint = "get_event_properties" -> {"get_event_of_subject"}
      [] OTHER -> {}

InputsPassed(call) ==
    CASE request.endpoint = "post_subject"
           -> call.args = <<request.body.governance_id, request.body.schema_id,
                            request.body.namespace, into(request.body.payload)>>
      [] request.endpoint = "post_governance"
           -> call.args = <<into(request.body.payload)>>
      [] request.endpoint \in {"get_governance", "get_subject", "get_single_request"}
           -> call.args = <<request.id>>
      [] request.endpoint = "post_event_simulated"
           -> call.args = <<request.id, into(request.body.payload)>>
      [] request.endpoint = "get_signatures"
           -> call.args = <<request.id, request.sn,
                            Forwarded(request.parameters.from),
                            Forwarded(request.parameters.quantity)>>
      [] request.endpoint \in NarrowingEndpoints
           -> Len(call.args) = 3 /\ call.args[1] = request.id
      [] OTHER -> TRUE

\* C21: the dispatch table is fixed.  Every domain call a request makes is
\* to an operation designated for its endpoint (governance read to the
\* subject read, event by sn and event properties to the list of events),
\* and the call carries the request's inputs: create subject the governance
\* id, schema id, namespace and payload of the body in this order, create
\* governance the payload only, simulate event the id and the payload, list
\* signatures the id, the sn and the window.
C21_DispatchTable ==
    \A i \in 1..Len(calls) :
        /\ calls[i].op \in Designated(request.endpoint)
        /\ InputsPassed(calls[i])

C21_Witness ==
    /\ request.endpoint = "post_subject" /\ NodeReturnedOk
    /\ request.body.namespace = "namespace2"
    /\ calls[1].op = "create_subject"
    /\ calls[1].args[3] = "namespace2"

----------------------------------------------------------------------------
(* The namespace of the list of subjects *)

IsListSubjects(req) == req.endpoint = "get_all_subjects"

BothListSubjects ==
    /\ BothReceived
    /\ IsListSubjects(request) /\ IsListSubjects(parked.request)
    /\ request.parameters = parked.request.parameters

\* C22: every domain call of the list-subjects endpoint is the list
\* operation with the namespace "namespace1" and the request's window, so
\* two list-subjects requests with equal from and quantity, whatever else
\* differs between them, have issued identical domain calls.
C22_FixedNamespace ==
    /\ (IsListSubjects(request) /\ ~NoDomainCall)
         => calls = <<Call("get_all_subjects",
                           <<"namespace1",
                             Forwarded(request.parameters.from),
                             Forwarded(request.parameters.quantity)>>)>>
    /\ BothListSubjects => calls = parked.calls

C22_Witness ==
    /\ BothListSubjects
    /\ request.header # parked.request.header
    /\ Len(calls) = 1 /\ calls[1].args[1] = "namespace1"
    /\ is_some(request.parameters.quantity)

----------------------------------------------------------------------------
(* The element the narrowing endpoints return *)

ListReturned ==
    /\ request.endpoint \in NarrowingEndpoints
    /\ NodeReturnedOk
    /\ Len(unwrap(result).val) > 0

Last(v) == v[Len(v)]

\* C23: when the list-events call returns Ok with a list that is not empty,
\* of whatever length and with whatever serial numbers, get-event-by-sn
\* replies with the last element of the list and event-properties replies
\* with the request of the last element.
C23_LastElementReturned ==
    ListReturned
        => LET event == Last(unwrap(result).val) IN
           IF request.endpoint = "get_event"
           THEN Responded(Reply(event))
           ELSE Responded(Reply(event.event_content.event_request.request))

C23_Witness ==
    /\ ListReturned
    /\ request.endpoint = "get_event"
    /\ request.sn = U64Zero
    /\ Len(unwrap(result).val) = 2
    /\ unwrap(result).val[1].event_content.sn = U64Zero
    /\ unwrap(result).val[2].event_content.sn = U64One
    /\ Responded(Reply(unwrap(result).val[2]))

====
